---- MODULE Spec2Model ----
(***************************************************************************)
(* Layer-cycling controller of the laser job runner (src/1.6.py).          *)
(*                                                                         *)
(* Two threads share the controller's state: the GUI thread "g", which     *)
(* runs the handlers on_start, on_next_layer and on_stop of LaserGUI one   *)
(* at a time, and the worker thread "w", which runs LoopThread.run.  Both  *)
(* talk to the external application through send_cmd, which sends one      *)
(* datagram and then receives on the process-wide socket sock_rcv.         *)
(* Every step below is one shared-memory access or one socket operation,   *)
(* so the interleavings of the two threads are those of the program.       *)
(***************************************************************************)
EXTENDS Integers, Sequences, FiniteSets, TLC

\* ---------------------------------------------------------------- bounds
\* Falling lines the worker handles in one session.
MaxFalling == 3
\* Manual advances (Next Layer clicks) in one session.
MaxManual == 1
\* PING iterations that fit into the handshake deadline of ensure_lightburn.
MaxPings == 2
\* Requests the external application holds unanswered.
MaxPending == 1
\* Reply datagrams the receive socket buffers.
MaxBuf == 1

VARIABLES
    pc,             \* pc["w"]: position of LoopThread.run; pc["g"]: of the GUI thread
    running,        \* LoopThread.running
    current_idx,    \* LoopThread.current_idx
    wlayers,        \* LoopThread.layers
    ser,            \* LoopThread.ser: "none" (None), "open", "closed"
    worker,         \* LaserGUI.worker: "none" (None) or "set"
    current_layers, \* LaserGUI.current_layers
    start_btn,      \* start_btn.isEnabled()
    stop_btn,       \* stop_btn.isEnabled()
    pending,        \* requests delivered to the external application, unanswered
    rcvbuf,         \* datagrams buffered in sock_rcv
    tmp,            \* per thread: current_idx as read by the increment expression
    arg,            \* per thread: the idx argument of _force_load_index
    wctx,           \* the worker's caller of _force_load_index: "init" or "fall"
    pings,          \* failed PING iterations of ensure_lightburn
    wkill,          \* the worker has issued taskkill (run, line 367)
    route,          \* how LoopThread.run ended
    lastCmd,        \* history: the last command handed to send_cmd
    pingOk,         \* history: a PING of this session returned "OK"
    readyEmitted,   \* history: the worker emitted ready in this session
    nFalling,       \* history: Falling lines handled in this session
    nManual,        \* history: manual advances begun in this session
    stAfterStop,    \* history: STATUS sent by the worker since running was cleared
    stopAt,         \* history: where the worker was when stop was requested
    raw,            \* the worker's local raw: the line readline returned
    texts,          \* on_start's locals t1, t2, t3
    nReady,         \* history: ready signals emitted in this session
    flSent,         \* history: a FORCELOAD was sent in this session
    st,             \* per thread: _force_load_index's local st when its poll ended
    lastLoad,       \* history: the artifact named by the most recent FORCELOAD
    gin,            \* arguments of a call of generate_svg_layers
    gout            \* what that call drew and returned

vars == <<pc, running, current_idx, wlayers, ser, worker, current_layers,
          start_btn, stop_btn, pending, rcvbuf, tmp, arg, wctx, pings, wkill,
          route, lastCmd, pingOk, readyEmitted, nFalling, nManual,
          stAfterStop, stopAt, raw, texts, nReady, flSent, st, lastLoad,
          gin, gout>>

guiVars  == <<worker, current_layers, start_btn, stop_btn>>
netVars  == <<pending, rcvbuf>>
histVars == <<pingOk, readyEmitted, nFalling, nManual, stAfterStop, stopAt>>
extVars  == <<raw, texts, nReady, flSent>>
genVars  == <<gin, gout>>
loadVars == <<st, lastLoad>>

Threads == {"w", "g"}

\* ------------------------------------------------------------ job catalog
\* The texts of the three input lines, after strip().
Texts == {"", "A"}

\* t1, t2, t3 outside on_start.
NoTexts == <<"", "", "">>

\* Variant of generate_svg_layers: the third text gets an artifact of its own.
generate_svg_layers_split(t1, t2, t3) ==
    (IF t1 # "" THEN <<"c00">> ELSE <<>>) \o
    (IF t2 # "" THEN <<"c01">> ELSE <<>>) \o
    (IF t3 # "" THEN <<"c01">> ELSE <<>>)

\* generate_svg_layers: the paths it returns (laser_job_c00.svg, laser_job_c01.svg).
generate_svg_layers(t1, t2, t3) ==
    (IF t1 # "" THEN <<"c00">> ELSE <<>>) \o
    (IF t2 # "" \/ t3 # "" THEN <<"c01">> ELSE <<>>)

\* Variant of draw_copies: the rotation is given to every instance but the
\* first, whatever the number of copies.
draw_copies_rotate_rest(txt, p, copies) ==
    LET off == p.offset
        positions == IF copies = 1 THEN << <<0, 0>> >>
                     ELSE IF copies = 2 THEN << <<0, 0>>, <<0, off>> >>
                     ELSE << <<0, 0>>, <<off, 0>>, <<0, off>>, <<off, off>> >>
    IN [i \in 1..Len(positions) |->
           LET xi == p.x + positions[i][1]
               yi == p.y + positions[i][2]
           IN [txt |-> txt, x |-> xi, y |-> yi,
               transform |-> IF i > 1 THEN <<180, xi, yi>> ELSE <<>>]]

\* draw_copies, lines 241-267: the text elements added to the drawing, in
\* order.  An element is its text, its insert point and its transform
\* (<<>> when it has none, <<180, xi, yi>> for "rotate(180 xi yi)").  The
\* loop index idx counts from 0, i here from 1.  Font and colour are left out.
draw_copies(txt, p, copies) ==
    LET off == p.offset
        positions == IF copies = 1 THEN << <<0, 0>> >>
                     ELSE IF copies = 2 THEN << <<0, 0>>, <<0, off>> >>
                     ELSE << <<0, 0>>, <<off, 0>>, <<0, off>>, <<off, off>> >>
    IN [i \in 1..Len(positions) |->
           LET xi == p.x + positions[i][1]
               yi == p.y + positions[i][2]
           IN [txt |-> txt, x |-> xi, y |-> yi,
               transform |-> IF copies = 2 /\ i - 1 = 1
                                THEN <<180, xi, yi>> ELSE <<>>]]

\* Line 281-282: the preset of the third text, its y replaced by the second
\* text's y plus 4 when there is a second text.
p3m(t2, p2, p3) == [p3 EXCEPT !.y = IF t2 # "" THEN p2.y + 4 ELSE p3.y]

\* Lines 269-273: what is drawn into laser_job_c00.svg.
dwg1(a) ==
    IF a.t1 # "" THEN draw_copies(a.t1, a.p1, a.copies) ELSE <<>>

\* Lines 275-286: what is drawn into laser_job_c01.svg, the entries of the
\* second text and then of the third.
dwg2(a) ==
    (IF a.t2 # "" THEN draw_copies(a.t2, a.p2, a.copies) ELSE <<>>) \o
    (IF a.t3 # "" THEN draw_copies(a.t3, p3m(a.t2, a.p2, a.p3), a.copies)
                  ELSE <<>>)

\* The items of the copies combo box, line 625.
Copies == {1, 2, 4}

\* Values of a preset's offset: the default 26 of line 168 and an edited one.
Offsets == {13, 26}

\* Presets as on_start passes them, lines 938-945; x and y as in
\* DEFAULT_PRESETS (lines 168-170), the y of the second one also edited.
Presets1 == {[x |-> 50, y |-> 50, offset |-> o] : o \in Offsets}
Presets2 == {[x |-> 50, y |-> y, offset |-> o] : y \in {52, 60}, o \in Offsets}
Presets3 == {[x |-> 50, y |-> 54, offset |-> o] : o \in Offsets}

\* The arguments of a call of generate_svg_layers.
GenInputs ==
    {[t1 |-> a, t2 |-> b, t3 |-> c, p1 |-> q1, p2 |-> q2, p3 |-> q3,
      copies |-> n] :
        a \in {"", "A"}, b \in {"", "B"}, c \in {"", "C"},
        q1 \in Presets1, q2 \in Presets2, q3 \in Presets3, n \in Copies}

\* No call of generate_svg_layers has returned.
NoOut == [done |-> FALSE, created |-> <<>>, dwg1 |-> <<>>, dwg2 |-> <<>>]

\* ------------------------------------------------------------ trigger lines
\* A raw serial line is the set of pieces it holds: the Falling marker "F",
\* the Rising marker "R", other text "X", bytes that are not UTF-8 "B".
\* The empty set is the empty line of a read timeout.
RawLines == SUBSET {"F", "R", "X", "B"}

\* raw.decode("utf-8", errors="ignore").strip(): undecodable bytes are dropped.
decode(bytes) == bytes \ {"B"}

\* Variant of classify: the Rising marker is tested first.
classify_rising_first(line) ==
    IF "R" \in line THEN "RISING"
    ELSE IF "F" \in line THEN "FALLING"
    ELSE "NONE"

\* Variant of classify: a line without the Falling marker is taken as Rising.
classify_else_rising(line) ==
    IF "F" \in line THEN "FALLING" ELSE "RISING"

\* The branch of the event loop a decoded line takes: Falling is tested first.
classify(line) ==
    IF "F" \in line THEN "FALLING"
    ELSE IF "R" \in line THEN "RISING"
    ELSE "NONE"

\* ---------------------------------------------------------- control channel
NoCmd == [kind |-> "-", arg |-> "-"]

\* Datagrams the external application may answer with.
RawReplies == {"OK\n", "BUSY"}

\* data.decode().strip()
strip(data) == IF data = "OK\n" THEN "OK" ELSE data

\* What recvfrom gives a send_cmd right now: the oldest buffered datagram,
\* or None ("NONE") when the timeout expires on an empty buffer.
reply == IF rcvbuf = <<>> THEN "NONE" ELSE strip(Head(rcvbuf).tok)

\* A request or reply whose send_cmd has returned belongs to nobody any more.
disown(t, s) ==
    [i \in DOMAIN s |-> IF s[i].by = t THEN [s[i] EXCEPT !.by = "old"] ELSE s[i]]

\* send_cmd, first half: sendto.  The datagram reaches the application or is lost.
sendto(t, kind, a) ==
    /\ lastCmd' = [kind |-> kind, arg |-> a]
    /\ pending' \in {pending} \cup
                    (IF Len(pending) < MaxPending
                        THEN {Append(pending, [by |-> t])} ELSE {})
    /\ UNCHANGED rcvbuf

\* send_cmd, second half: recvfrom on sock_rcv, then return.
recvfrom(t) ==
    /\ rcvbuf' = disown(t, IF rcvbuf = <<>> THEN <<>> ELSE Tail(rcvbuf))
    /\ pending' = disown(t, pending)
    /\ UNCHANGED lastCmd

\* The external application answers its oldest request.
AppReply ==
    /\ pending # <<>>
    /\ Len(rcvbuf) < MaxBuf
    /\ \E tok \in RawReplies :
          rcvbuf' = Append(rcvbuf, [by |-> Head(pending).by, tok |-> tok])
    /\ pending' = Tail(pending)
    /\ UNCHANGED <<genVars, loadVars, extVars, pc, running, current_idx, wlayers, ser, guiVars, tmp, arg,
                   wctx, pings, wkill, route, lastCmd, histVars>>

\* ------------------------------------------------------ _force_load_index
\* Variant of next_index: one-shot instead of circular, the index stops at
\* the last layer.
next_index_clamped(i, n) == IF i + 1 < n THEN i + 1 ELSE n - 1

\* Variant of next_index: the successor is not reduced modulo the length.
next_index_unwrapped(i, n) == i + 1

\* (self.current_idx + 1) % len(self.layers), lines 358 and 978.
next_index(i, n) == (i + 1) % n

\* Variant of poll_again: the poll does not look at the cancellation flag.
poll_again_unflagged(r) == r # "OK"

\* The condition of the confirm poll, line 328: st != "OK" and self.running.
poll_again(r) == r # "OK" /\ running

\* Variant of load_confirmed: the return value does not depend on running.
load_confirmed_unflagged == TRUE

\* Line 330: a load counts as confirmed only while running is still set.
load_confirmed == running

\* The caller evaluates self.current_idx as the argument idx.
FlArg(t) ==
    /\ pc[t] = "fl_arg"
    /\ arg' = [arg EXCEPT ![t] = current_idx]
    /\ pc' = [pc EXCEPT ![t] = "fl_send"]
    /\ UNCHANGED <<genVars, loadVars, extVars, running, current_idx, wlayers, ser, guiVars, netVars, tmp,
                   wctx, pings, wkill, route, lastCmd, histVars>>

\* path = self.layers[idx]; send_cmd(f"FORCELOAD:{path}"), its sendto.
\* An idx outside the list raises IndexError, which ends the handler (GUI
\* thread) or the thread (worker).
FlSend(t) ==
    /\ pc[t] = "fl_send"
    /\ IF arg[t] + 1 \in DOMAIN wlayers
          THEN /\ sendto(t, "FORCELOAD", wlayers[arg[t] + 1])
               /\ pc' = [pc EXCEPT ![t] = "fl_recv"]
               /\ flSent' = TRUE
               /\ lastLoad' = wlayers[arg[t] + 1]
               /\ UNCHANGED route
          ELSE /\ pc' = [pc EXCEPT ![t] = IF t = "w" THEN "crashed" ELSE "idle"]
               /\ route' = IF t = "w" THEN "index_error" ELSE route
               /\ UNCHANGED <<netVars, lastCmd, flSent, lastLoad>>
    /\ arg' = [arg EXCEPT ![t] = 0]
    /\ UNCHANGED <<genVars, st, raw, texts, nReady, running, current_idx, wlayers, ser, guiVars, tmp, wctx,
                   pings, wkill, histVars>>

\* send_cmd("FORCELOAD:..."), its recvfrom: the reply is not looked at.
FlRecv(t) ==
    /\ pc[t] = "fl_recv"
    /\ recvfrom(t)
    /\ pc' = [pc EXCEPT ![t] = "st_send"]
    /\ UNCHANGED <<genVars, loadVars, extVars, running, current_idx, wlayers, ser, guiVars, tmp, arg,
                   wctx, pings, wkill, route, histVars>>

\* st = send_cmd("STATUS"), its sendto (lines 327 and 329, after the sleep).
StSend(t) ==
    /\ pc[t] = "st_send"
    /\ sendto(t, "STATUS", "-")
    /\ pc' = [pc EXCEPT ![t] = "st_recv"]
    /\ stAfterStop' = IF t = "w" /\ ~running /\ stAfterStop < 2
                         THEN stAfterStop + 1 ELSE stAfterStop
    /\ UNCHANGED <<genVars, loadVars, extVars, running, current_idx, wlayers, ser, guiVars, tmp, arg,
                   wctx, pings, wkill, route, pingOk, readyEmitted, nFalling,
                   nManual, stopAt>>

\* st = send_cmd("STATUS"), its recvfrom, and the test of the while loop.
StRecv(t) ==
    /\ pc[t] = "st_recv"
    /\ recvfrom(t)
    /\ pc' = [pc EXCEPT ![t] = IF poll_again(reply) THEN "st_send" ELSE "fl_chk"]
    /\ st' = IF poll_again(reply) THEN st ELSE [st EXCEPT ![t] = reply]
    /\ UNCHANGED <<genVars, lastLoad, extVars, running, current_idx, wlayers, ser, guiVars, tmp, arg,
                   wctx, pings, wkill, route, histVars>>

\* ------------------------------------------------------------ LoopThread.run
Finished == {"done", "crashed"}

\* Variant of handshake_ok: any reply at all ends the handshake.
handshake_ok_any(r) == r # "NONE"

\* Line 232: send_cmd("PING") == "OK".
handshake_ok(r) == r = "OK"

\* ensure_lightburn: send_cmd("PING"), its sendto.
W_PingSend ==
    /\ pc["w"] = "ping_send"
    /\ sendto("w", "PING", "-")
    /\ pc' = [pc EXCEPT !["w"] = "ping_recv"]
    /\ UNCHANGED <<genVars, loadVars, extVars, running, current_idx, wlayers, ser, guiVars, tmp, arg,
                   wctx, pings, wkill, route, histVars>>

\* ensure_lightburn: the reply of the PING.  "OK" returns; anything else
\* pings again while the deadline allows and raises RuntimeError after it.
W_PingRecv ==
    /\ pc["w"] = "ping_recv"
    /\ recvfrom("w")
    /\ IF handshake_ok(reply)
          THEN /\ pc' = [pc EXCEPT !["w"] = "fl_arg"]
               /\ pingOk' = TRUE
               /\ wctx' = "init"
               /\ UNCHANGED <<pings, route>>
          ELSE IF pings + 1 < MaxPings
          THEN /\ pc' = [pc EXCEPT !["w"] = "ping_send"]
               /\ pings' = pings + 1
               /\ UNCHANGED <<pingOk, wctx, route>>
          ELSE /\ pc' = [pc EXCEPT !["w"] = "crashed"]
               /\ route' = "handshake"
               /\ UNCHANGED <<pingOk, wctx, pings>>
    /\ UNCHANGED <<genVars, loadVars, extVars, running, current_idx, wlayers, ser, guiVars, tmp, arg,
                   wkill, readyEmitted, nFalling, nManual, stAfterStop, stopAt>>

\* Variant of after_confirm: START is sent after every confirmed load.
after_confirm_start(ctx) == "s0_send"

\* Where run goes on after a confirmed load: to the START of line 341 after
\* the initial load, back to the event loop (line 360) after a Falling load.
after_confirm(ctx) == IF ctx = "init" THEN "s0_send" ELSE "loop"

\* The return of _force_load_index to run: line 339 (initial load) returns
\* from run when the load was cancelled; line 359 (Falling) breaks out of the
\* event loop, and line 360 emits ready after a confirmed load.
W_FlChk ==
    /\ pc["w"] = "fl_chk"
    /\ IF load_confirmed
          THEN /\ pc' = [pc EXCEPT !["w"] = after_confirm(wctx)]
               /\ readyEmitted' = (readyEmitted \/ wctx = "fall")
               /\ nReady' = IF wctx = "fall" THEN nReady + 1 ELSE nReady
               /\ UNCHANGED route
          ELSE /\ pc' = [pc EXCEPT !["w"] = IF wctx = "init" THEN "done" ELSE "cleanup"]
               /\ route' = IF wctx = "init" THEN "init_cancel" ELSE "fall_cancel"
               /\ UNCHANGED <<readyEmitted, nReady>>
    /\ st' = [st EXCEPT !["w"] = "-"]
    /\ UNCHANGED <<genVars, lastLoad, raw, texts, flSent, running, current_idx, wlayers, ser, guiVars, netVars, tmp,
                   arg, wctx, pings, wkill, lastCmd, pingOk, nFalling, nManual,
                   stAfterStop, stopAt>>

\* Line 341: send_cmd("START") for the initial layer, its sendto.
W_S0Send ==
    /\ pc["w"] = "s0_send"
    /\ sendto("w", "START", "-")
    /\ pc' = [pc EXCEPT !["w"] = "s0_recv"]
    /\ UNCHANGED <<genVars, loadVars, extVars, running, current_idx, wlayers, ser, guiVars, tmp, arg,
                   wctx, pings, wkill, route, histVars>>

\* Line 341: the recvfrom of that START, then self.ready.emit().
W_S0Recv ==
    /\ pc["w"] = "s0_recv"
    /\ recvfrom("w")
    /\ pc' = [pc EXCEPT !["w"] = "loop"]
    /\ readyEmitted' = TRUE
    /\ nReady' = nReady + 1
    /\ UNCHANGED <<genVars, loadVars, raw, texts, flSent, running, current_idx, wlayers, ser, guiVars, tmp, arg,
                   wctx, pings, wkill, route, pingOk, nFalling, nManual,
                   stAfterStop, stopAt>>

\* Variant of has_serial: the event loop does not test for a missing handle.
has_serial_unchecked == TRUE

\* Line 344, "if not self.ser": the worker holds a serial handle.
has_serial == ser # "none"

\* The top of one iteration of the event loop, lines 343-348: the test of
\* running, the sleep without a serial handle, and readline, which returns a
\* line (empty after its timeout) or raises.  A Falling line is read only
\* while the session's count of them is below MaxFalling.
W_Loop ==
    /\ pc["w"] = "loop"
    /\ IF ~running
          THEN /\ pc' = [pc EXCEPT !["w"] = "cleanup"]
               /\ route' = "loop_stop"
               /\ UNCHANGED raw
          ELSE IF ~has_serial
          THEN UNCHANGED <<pc, route, raw>>
          ELSE \/ /\ pc' = [pc EXCEPT !["w"] = "crashed"]
                  /\ route' = "serial_exc"
                  /\ UNCHANGED raw
               \/ /\ ser = "open"
                  /\ \E r \in RawLines :
                        /\ classify(decode(r)) = "FALLING" => nFalling < MaxFalling
                        /\ raw' = r
                  /\ pc' = [pc EXCEPT !["w"] = "dispatch"]
                  /\ UNCHANGED route
    /\ UNCHANGED <<genVars, loadVars, texts, nReady, flSent, running, current_idx, wlayers, ser,
                   guiVars, netVars, tmp, arg, wctx, pings, wkill, lastCmd,
                   histVars>>

\* The rest of the iteration, lines 349-365: decode and the two marker
\* tests.  The Falling branch reads current_idx for the increment; a line
\* with neither marker goes back to the top of the loop.
W_Dispatch ==
    /\ pc["w"] = "dispatch"
    /\ LET ev == classify(decode(raw)) IN
       CASE ev = "FALLING" ->
               /\ nFalling' = nFalling + 1
               /\ tmp' = [tmp EXCEPT !["w"] = current_idx]
               /\ wctx' = "fall"
               /\ pc' = [pc EXCEPT !["w"] = "inc_write"]
         [] ev = "RISING" ->
               /\ pc' = [pc EXCEPT !["w"] = "r_send"]
               /\ UNCHANGED <<tmp, wctx, nFalling>>
         [] OTHER ->
               /\ pc' = [pc EXCEPT !["w"] = "loop"]
               /\ UNCHANGED <<tmp, wctx, nFalling>>
    /\ raw' = {}
    /\ UNCHANGED <<genVars, loadVars, texts, nReady, flSent, running, current_idx, wlayers, ser,
                   guiVars, netVars, arg, pings, wkill, route, lastCmd, pingOk,
                   readyEmitted, nManual, stAfterStop, stopAt>>

\* Line 358: the store of the incremented index.
W_IncWrite ==
    /\ pc["w"] = "inc_write"
    /\ current_idx' = next_index(tmp["w"], Len(wlayers))
    /\ tmp' = [tmp EXCEPT !["w"] = 0]
    /\ pc' = [pc EXCEPT !["w"] = "fl_arg"]
    /\ UNCHANGED <<genVars, loadVars, extVars, running, wlayers, ser, guiVars, netVars, arg, wctx,
                   pings, wkill, route, lastCmd, histVars>>

\* Variant of W_RSend: the Rising branch reloads the current layer
\* instead of starting it.
W_RSend_reload ==
    /\ pc["w"] = "r_send"
    /\ sendto("w", "FORCELOAD", wlayers[current_idx + 1])
    /\ pc' = [pc EXCEPT !["w"] = "r_recv"]
    /\ UNCHANGED <<genVars, loadVars, extVars, running, current_idx, wlayers, ser, guiVars, tmp, arg,
                   wctx, pings, wkill, route, histVars>>

\* Line 365: send_cmd("START") on a Rising line, its sendto.
W_RSend ==
    /\ pc["w"] = "r_send"
    /\ sendto("w", "START", "-")
    /\ pc' = [pc EXCEPT !["w"] = "r_recv"]
    /\ UNCHANGED <<genVars, loadVars, extVars, running, current_idx, wlayers, ser, guiVars, tmp, arg,
                   wctx, pings, wkill, route, histVars>>

\* Line 365: the recvfrom of that START, then the sleep of one second.
W_RRecv ==
    /\ pc["w"] = "r_recv"
    /\ recvfrom("w")
    /\ pc' = [pc EXCEPT !["w"] = "loop"]
    /\ UNCHANGED <<genVars, loadVars, extVars, running, current_idx, wlayers, ser, guiVars, tmp, arg,
                   wctx, pings, wkill, route, histVars>>

\* Lines 367-373, after the event loop: taskkill, then self.ser.close().
W_Cleanup ==
    /\ pc["w"] = "cleanup"
    /\ wkill' = TRUE
    /\ ser' = IF ser = "open" THEN "closed" ELSE ser
    /\ pc' = [pc EXCEPT !["w"] = "done"]
    /\ UNCHANGED <<genVars, loadVars, extVars, running, current_idx, wlayers, guiVars, netVars, tmp, arg,
                   wctx, pings, route, lastCmd, histVars>>

\* The program after the module is loaded and LaserGUI is constructed.
Constructed ==
    /\ pc = [w |-> "none", g |-> "idle"]
    /\ running = FALSE
    /\ current_idx = 0
    /\ wlayers = <<>>
    /\ ser = "none"
    /\ worker = "none"
    /\ current_layers = <<>>
    /\ start_btn = TRUE
    /\ stop_btn = TRUE
    /\ pending = <<>>
    /\ rcvbuf = <<>>
    /\ tmp = [w |-> 0, g |-> 0]
    /\ arg = [w |-> 0, g |-> 0]
    /\ wctx = "init"
    /\ pings = 0
    /\ wkill = FALSE
    /\ route = "none"
    /\ lastCmd = NoCmd
    /\ pingOk = FALSE
    /\ readyEmitted = FALSE
    /\ nFalling = 0
    /\ nManual = 0
    /\ stAfterStop = 0
    /\ stopAt = "none"
    /\ raw = {}
    /\ texts = NoTexts
    /\ nReady = 0
    /\ flSent = FALSE
    /\ st = [w |-> "-", g |-> "-"]
    /\ lastLoad = "-"

Init ==
    /\ Constructed
    /\ gin = CHOOSE a \in GenInputs : a.t1 = "" /\ a.t2 = "" /\ a.t3 = ""
    /\ gout = NoOut

\* ------------------------------------------------------------------ LaserGUI
\* Variant of start_refused: only the COM port is validated.
start_refused_port_only(t1, t2, t3, portSel, layers) == ~portSel

\* on_start's early returns, lines 920-923 and 954-955: no text filled out,
\* no COM port selected, or no layer generated.
start_refused(t1, t2, t3, portSel, layers) ==
    \/ ~(t1 # "" \/ t2 # "" \/ t3 # "")
    \/ ~portSel
    \/ layers = <<>>

\* Variant of rebind: the receive socket is kept, with what it has buffered.
rebind_kept(buf) == buf

\* Lines 911-915: the buffer of the socket on_start binds in place of the
\* one it closed.
rebind(buf) == <<>>

\* on_start, lines 910-918: sock_rcv is closed and a fresh socket is bound,
\* so whatever the old socket had buffered is gone; then the three text
\* fields are read.
G_StartRebind ==
    /\ pc["g"] = "idle"
    /\ start_btn
    /\ rcvbuf' = rebind(rcvbuf)
    /\ \E t1 \in Texts, t2 \in Texts, t3 \in Texts : texts' = <<t1, t2, t3>>
    /\ pc' = [pc EXCEPT !["g"] = "start_body"]
    /\ UNCHANGED <<genVars, loadVars, raw, nReady, flSent, running, current_idx, wlayers, ser, guiVars, pending, tmp,
                   arg, wctx, pings, wkill, route, lastCmd, histVars>>

\* on_start, lines 919-973.  Inputs: whether a COM port is selected, whether
\* the serial port opens (LoopThread.__init__, lines 306-312), and whether
\* the files can be written: "gen_fail" is an exception from
\* generate_svg_layers, "log_fail" one from open(logfile) in
\* LoopThread.__init__, raised after current_layers was assigned.  Both are
\* caught at line 971.
G_StartBody ==
    /\ pc["g"] = "start_body"
    /\ \E portSel \in BOOLEAN, serOk \in BOOLEAN,
          io \in {"ok", "gen_fail", "log_fail"} :
          LET t1 == texts[1]
              t2 == texts[2]
              t3 == texts[3]
              layers == generate_svg_layers(t1, t2, t3) IN
          IF start_refused(t1, t2, t3, portSel, layers) \/ io = "gen_fail"
             THEN /\ pc' = [pc EXCEPT !["g"] = "idle"]
                  /\ UNCHANGED <<running, current_idx, wlayers, ser, guiVars,
                                 tmp, arg, wctx, pings, wkill, route, lastCmd,
                                 histVars, nReady, flSent, lastLoad>>
             ELSE IF io = "log_fail"
             THEN /\ pc' = [pc EXCEPT !["g"] = "idle"]
                  /\ current_layers' = layers
                  /\ UNCHANGED <<running, current_idx, wlayers, ser, worker,
                                 start_btn, stop_btn, tmp, arg, wctx, pings,
                                 wkill, route, lastCmd, histVars, nReady,
                                 flSent, lastLoad>>
             ELSE /\ current_layers' = layers
                  /\ worker' = "set"
                  /\ wlayers' = layers
                  /\ running' = TRUE
                  /\ current_idx' = 0
                  /\ ser' = IF serOk THEN "open" ELSE "none"
                  /\ pc' = [w |-> "ping_send", g |-> "idle"]
                  /\ start_btn' = FALSE
                  /\ stop_btn' = TRUE
                  /\ tmp' = [w |-> 0, g |-> 0]
                  /\ arg' = [w |-> 0, g |-> 0]
                  /\ wctx' = "init"
                  /\ pings' = 0
                  /\ wkill' = FALSE
                  /\ route' = "none"
                  /\ lastCmd' = NoCmd
                  /\ pingOk' = FALSE
                  /\ readyEmitted' = FALSE
                  /\ nFalling' = 0
                  /\ nManual' = 0
                  /\ stAfterStop' = 0
                  /\ stopAt' = "none"
                  /\ nReady' = 0
                  /\ flSent' = FALSE
                  /\ lastLoad' = "-"
    /\ texts' = NoTexts
    /\ UNCHANGED <<genVars, st, netVars, raw>>

\* on_next_layer, lines 976-978: the guard and the read of worker.current_idx.
G_NextRead ==
    /\ pc["g"] = "idle"
    /\ current_layers # <<>>
    /\ worker = "set"
    /\ nManual < MaxManual
    /\ nManual' = nManual + 1
    /\ tmp' = [tmp EXCEPT !["g"] = current_idx]
    /\ pc' = [pc EXCEPT !["g"] = "inc_write"]
    /\ UNCHANGED <<genVars, loadVars, extVars, running, current_idx, wlayers, ser, guiVars, netVars, arg,
                   wctx, pings, wkill, route, lastCmd, pingOk, readyEmitted,
                   nFalling, stAfterStop, stopAt>>

\* Variant of G_IncWrite: the manual advance does not wrap around.
G_IncWrite_clamped ==
    /\ pc["g"] = "inc_write"
    /\ current_idx' = next_index_clamped(tmp["g"], Len(current_layers))
    /\ tmp' = [tmp EXCEPT !["g"] = 0]
    /\ pc' = [pc EXCEPT !["g"] = "fl_arg"]
    /\ UNCHANGED <<genVars, loadVars, extVars, running, wlayers, ser, guiVars, netVars, arg, wctx,
                   pings, wkill, route, lastCmd, histVars>>

\* on_next_layer, line 978: the store of the incremented index.
G_IncWrite ==
    /\ pc["g"] = "inc_write"
    /\ current_idx' = next_index(tmp["g"], Len(current_layers))
    /\ tmp' = [tmp EXCEPT !["g"] = 0]
    /\ pc' = [pc EXCEPT !["g"] = "fl_arg"]
    /\ UNCHANGED <<genVars, loadVars, extVars, running, wlayers, ser, guiVars, netVars, arg, wctx,
                   pings, wkill, route, lastCmd, histVars>>

\* on_next_layer, lines 979-981: _force_load_index has returned (its result
\* is not used); the label is updated and the handler returns.
G_FlChk ==
    /\ pc["g"] = "fl_chk"
    /\ pc' = [pc EXCEPT !["g"] = "idle"]
    /\ st' = [st EXCEPT !["g"] = "-"]
    /\ UNCHANGED <<genVars, lastLoad, extVars, running, current_idx, wlayers, ser, guiVars, netVars, tmp,
                   arg, wctx, pings, wkill, route, lastCmd, histVars>>

\* Where the worker is when stop is requested: in the confirm poll of the
\* initial load or of a Falling load, or elsewhere.
stop_point ==
    IF pc["w"] \in {"st_send", "st_recv"} THEN "poll_" \o wctx
    ELSE IF pc["w"] \in Finished THEN "ended"
    ELSE "other"

\* on_stop, lines 984-987: the running flag is cleared and the GUI thread
\* blocks in worker.wait().
G_StopSet ==
    /\ pc["g"] = "idle"
    /\ stop_btn
    /\ running' = IF worker = "set" THEN FALSE ELSE running
    /\ stopAt' = IF worker = "set" /\ running THEN stop_point ELSE stopAt
    /\ pc' = [pc EXCEPT !["g"] = "stop_wait"]
    /\ UNCHANGED <<genVars, loadVars, extVars, current_idx, wlayers, ser, guiVars, netVars, tmp, arg,
                   wctx, pings, wkill, route, lastCmd, pingOk, readyEmitted,
                   nFalling, nManual, stAfterStop>>

\* Variant of wait_returns: on_stop does not wait for the worker.
wait_returns_at_once == TRUE

\* Line 987, self.worker.wait(): returns once run has ended.
wait_returns == worker = "set" => pc["w"] \in Finished

\* on_stop, lines 987-994: wait() returns once the worker has finished; the
\* serial handle is closed, LightBurn is killed and the buttons are switched.
G_StopWait ==
    /\ pc["g"] = "stop_wait"
    /\ wait_returns
    /\ ser' = IF worker = "set" /\ ser = "open" THEN "closed" ELSE ser
    /\ start_btn' = TRUE
    /\ stop_btn' = FALSE
    /\ pc' = [pc EXCEPT !["g"] = "idle"]
    /\ UNCHANGED <<genVars, loadVars, extVars, running, current_idx, wlayers, worker, current_layers,
                   netVars, tmp, arg, wctx, pings, wkill, route, lastCmd,
                   histVars>>

\* ------------------------------------------------------------ specification
WorkerNext ==
    \/ W_PingSend \/ W_PingRecv
    \/ FlArg("w") \/ FlSend("w") \/ FlRecv("w") \/ StSend("w") \/ StRecv("w")
    \/ W_FlChk \/ W_S0Send \/ W_S0Recv
    \/ W_Loop \/ W_Dispatch \/ W_IncWrite \/ W_RSend \/ W_RRecv \/ W_Cleanup

GuiNext ==
    \/ G_StartRebind \/ G_StartBody
    \/ G_NextRead \/ G_IncWrite
    \/ FlArg("g") \/ FlSend("g") \/ FlRecv("g") \/ StSend("g") \/ StRecv("g")
    \/ G_FlChk
    \/ G_StopSet \/ G_StopWait

Next == WorkerNext \/ GuiNext \/ AppReply

Spec == Init /\ [][Next]_vars

\* The same program when the worker thread keeps being scheduled (every
\* send_cmd and every readline returns within its timeout, so the worker
\* always has a step to take) and worker.wait() returns once the worker has
\* finished.  The operator and the external application owe nothing.
FairSpec == Spec /\ WF_vars(WorkerNext) /\ WF_vars(G_StopWait)

\* ------------------------------------------------ generate_svg_layers alone
\* A call of generate_svg_layers on any arguments.
GenInit ==
    /\ Constructed
    /\ gin \in GenInputs
    /\ gout = NoOut

\* Lines 238-288: the call returns the paths it created, the drawings saved.
Generate ==
    /\ ~gout.done
    /\ gout' = [done |-> TRUE,
                created |-> generate_svg_layers(gin.t1, gin.t2, gin.t3),
                dwg1 |-> dwg1(gin),
                dwg2 |-> dwg2(gin)]
    /\ UNCHANGED <<gin, pc, running, current_idx, wlayers, ser, guiVars,
                   netVars, tmp, arg, wctx, pings, wkill, route, lastCmd,
                   histVars, extVars, loadVars>>

GenNext == Generate

GenSpec == GenInit /\ [][GenNext]_vars

\* ------------------------------------------------------------------ claims
\* The worker holds a confirmed load: it is past a successful return of
\* _force_load_index and has not begun another increment.
Confirmed == pc["w"] \in {"s0_send", "s0_recv", "loop", "r_send", "r_recv"}

\* A thread is inside the increment / FORCELOAD / STATUS poll sequence.
InLoad(t) == pc[t] \in {"inc_write", "fl_arg", "fl_send", "fl_recv",
                        "st_send", "st_recv", "fl_chk"}

\* A thread is inside the confirm poll of _force_load_index.
InPoll(t) == pc[t] \in {"st_send", "st_recv"}

\* A thread is inside send_cmd, between its sendto and its return.
InCall(t) == pc[t] \in {"ping_recv", "fl_recv", "st_recv", "s0_recv", "r_recv"}

\* The worker thread exists and has not ended.
Alive == pc["w"] \notin {"none", "done", "crashed"}

\* C1: without a manual advance, whenever the worker holds a confirmed load
\* after handling K Falling lines, current_idx = K mod N.
C1_ConfirmedIndex ==
    (Confirmed /\ nManual = 0) => current_idx = nFalling % Len(wlayers)

\* C1 witness: N = 2 and the third Falling load is confirmed at index 1.
C1_Witness ==
    /\ pc["w"] = "loop" /\ running /\ nManual = 0
    /\ Len(wlayers) = 2 /\ nFalling = 3 /\ current_idx = 1

\* C2: as long as no PING of the session has returned OK, no command other
\* than PING has been sent, the index is 0 and ready has not been emitted.
C2_NoLoadBeforeHandshake ==
    (worker = "set" /\ ~pingOk) =>
        /\ lastCmd.kind \in {"-", "PING"}
        /\ current_idx = 0
        /\ ~readyEmitted

\* C3: when stop is requested while the worker is in the confirm poll, the
\* worker sends at most one more STATUS, stays on the way out without
\* reporting the load confirmed (or emitting ready), is never blocked, and
\* once on_stop has returned the worker has finished, the serial handle is
\* not open and Start is enabled.
C3_StopDuringPoll ==
    stopAt \in {"poll_init", "poll_fall"} =>
        /\ stAfterStop <= 1
        /\ pc["w"] \in {"st_send", "st_recv", "fl_chk", "cleanup", "done"}
        /\ pc["w"] = "cleanup" => stopAt = "poll_fall"
        /\ stopAt = "poll_init" => ~readyEmitted
        /\ pc["w"] \notin Finished => ENABLED WorkerNext
        /\ pc["g"] = "idle" =>
              /\ pc["w"] \in Finished
              /\ ser # "open"
              /\ start_btn /\ ~stop_btn
              /\ ENABLED G_StartRebind

\* C3 witness: stop came during the poll of a Falling load, the worker sent
\* one more STATUS, and on_stop has returned.
C3_Witness ==
    /\ stopAt = "poll_fall" /\ stAfterStop = 1
    /\ pc["g"] = "idle" /\ pc["w"] = "done" /\ ser = "closed" /\ start_btn

\* C4: whenever LoopThread.run has ended, the serial connection is not open
\* and the worker has issued the forced termination.
C4_ReleaseOnEveryExit ==
    pc["w"] \in Finished => (ser # "open" /\ wkill)

\* C5: while a confirm poll is in progress and the session is not
\* cancelled, the control surface can accept the stop request.
C5_StopDeliverable ==
    ((InPoll("w") \/ InPoll("g")) /\ running) => ENABLED G_StopSet

\* C6: in a live session the manual advance and the Falling branch do the
\* same thing: store (i + 1) mod N for the index i they read, pass the
\* current index to _force_load_index, send FORCELOAD for the artifact at
\* that index, then poll with STATUS.
C6_SameAdvance ==
    [][\A t \in Threads :
          Alive =>
            /\ (pc[t] = "inc_write" /\ pc'[t] # pc[t]) =>
                  /\ current_idx' = (tmp[t] + 1) % Len(wlayers)
                  /\ pc'[t] = "fl_arg"
            /\ (pc[t] = "fl_arg" /\ pc'[t] # pc[t]) =>
                  /\ arg'[t] = current_idx
                  /\ pc'[t] = "fl_send"
            /\ (pc[t] = "fl_send" /\ pc'[t] # pc[t]) =>
                  /\ lastCmd' = [kind |-> "FORCELOAD", arg |-> wlayers[arg[t] + 1]]
                  /\ pc'[t] = "fl_recv"
            /\ (pc[t] = "fl_recv" /\ pc'[t] # pc[t]) =>
                  /\ lastCmd' = lastCmd
                  /\ pc'[t] = "st_send"
            /\ (pc[t] = "st_send" /\ pc'[t] # pc[t]) =>
                  /\ lastCmd' = [kind |-> "STATUS", arg |-> "-"]
                  /\ pc'[t] = "st_recv"
            /\ (pc[t] = "st_recv" /\ pc'[t] # pc[t]) =>
                  /\ lastCmd' = lastCmd
                  /\ pc'[t] \in {"st_send", "fl_chk"}]_vars

\* C6 witness: with N = 2, one Falling load was confirmed (index 1) and a
\* manual advance has then wrapped the index to 0 and sent its FORCELOAD.
C6_Witness ==
    /\ pc["g"] = "fl_recv" /\ pc["w"] = "loop" /\ running
    /\ Len(wlayers) = 2 /\ nFalling = 1 /\ nManual = 1
    /\ current_idx = 0 /\ lastCmd = [kind |-> "FORCELOAD", arg |-> "c00"]

\* C7: the GUI thread and the worker are never both inside a load/confirm
\* sequence.
C7_OneLoadAtATime == ~(InLoad("g") /\ InLoad("w"))

\* C8: outside the construction of a new worker, a step that changes
\* current_idx or closes the serial handle is not a step of the GUI thread.
C8_SingleWriter ==
    [][(pc["g"] # "start_body" /\
          (current_idx' # current_idx \/ (ser = "open" /\ ser' = "closed")))
       => pc'["g"] = pc["g"]]_vars

\* C9: the two threads are never both between the sendto and the return of
\* a send_cmd.
C9_OneOutstanding == ~(InCall("g") /\ InCall("w"))

\* C10: the worker's handling of a Rising line sends START once, sends
\* nothing else and leaves current_idx as it is.
C10_RisingFrame ==
    [][/\ (pc["w"] = "dispatch" /\ pc'["w"] = "r_send") =>
             UNCHANGED <<current_idx, lastCmd>>
       /\ (pc["w"] = "r_send" /\ pc'["w"] # "r_send") =>
             /\ pc'["w"] = "r_recv"
             /\ lastCmd' = [kind |-> "START", arg |-> "-"]
             /\ current_idx' = current_idx
       /\ (pc["w"] = "r_recv" /\ pc'["w"] # "r_recv") =>
             /\ pc'["w"] = "loop"
             /\ UNCHANGED <<current_idx, lastCmd>>]_vars

\* C10 witness: the worker has sent the START of a Rising line while the
\* index is 1.
C10_Witness ==
    /\ pc["w"] = "r_recv" /\ current_idx = 1
    /\ lastCmd = [kind |-> "START", arg |-> "-"]

\* A session is on: a worker was started and on_stop has not returned.
InSession == worker = "set" /\ ~start_btn

\* C11: the worker's handling of a line that holds neither marker (the empty
\* line of a read timeout included) goes back to the top of the event loop
\* and changes nothing else: the index stays, no command is sent, no ready
\* is emitted.
C11_UnmarkedLineFrame ==
    [][(pc["w"] = "dispatch" /\ pc'["w"] # "dispatch" /\ raw \cap {"F", "R"} = {})
       => /\ pc'["w"] = "loop"
          /\ UNCHANGED <<current_idx, lastCmd, netVars, nReady, readyEmitted,
                         running, wlayers, ser, guiVars, nFalling, route,
                         wkill>>]_vars

\* C11 witness: mid-session, at index 1, the worker has read a line of other
\* text and undecodable bytes and is about to handle it.
C11_Witness ==
    /\ pc["w"] = "dispatch" /\ raw = {"X", "B"}
    /\ running /\ readyEmitted /\ current_idx = 1

\* C12: in every state of a session the index is a position of the worker's
\* catalog, the index handed to _force_load_index is one too, and the last
\* FORCELOAD names an artifact of that catalog.
C12_IndexInRange ==
    InSession =>
        /\ current_idx \in 0..(Len(wlayers) - 1)
        /\ \A t \in Threads : pc[t] = "fl_send" => arg[t] \in 0..(Len(wlayers) - 1)
        /\ route # "index_error"
        /\ lastCmd.kind = "FORCELOAD" =>
              \E i \in 1..Len(wlayers) : lastCmd.arg = wlayers[i]

\* C12 witness: two layers, two Falling lines and one manual advance between
\* them; the index has wrapped and is 1 again.
C12_Witness ==
    /\ InSession /\ pc["g"] = "idle" /\ pc["w"] = "loop" /\ running
    /\ Len(wlayers) = 2 /\ nFalling = 2 /\ nManual = 1 /\ current_idx = 1

\* C13: a run of on_start whose three texts are all empty, or whose
\* generated catalog is empty, returns without creating or starting a worker
\* and without sending a command; a worker never has an empty catalog.
C13_EmptyStartRefused ==
    [][/\ (/\ pc["g"] = "start_body" /\ pc'["g"] # "start_body"
           /\ \/ texts = NoTexts
              \/ generate_svg_layers(texts[1], texts[2], texts[3]) = <<>>)
          => /\ pc' = [pc EXCEPT !["g"] = "idle"]
             /\ UNCHANGED <<worker, wlayers, running, current_idx, lastCmd,
                            netVars, start_btn, stop_btn, current_layers,
                            pingOk, readyEmitted, flSent>>
       /\ worker' = "set" => Len(wlayers') >= 1]_vars

\* C13 witness: after a stopped session, on_start has read three empty
\* texts and is about to validate them.
C13_Witness ==
    /\ pc["g"] = "start_body" /\ texts = NoTexts
    /\ worker = "set" /\ pc["w"] = "done" /\ lastCmd.kind # "-"

\* C14: in a session whose serial port could not be opened the worker takes
\* no trigger line and does not fail on the missing handle; it is in its
\* event loop only after an answered PING, the load of layer 0 and ready, and
\* it stays there while running is set; on_next_layer is open to the
\* operator whenever the GUI thread is idle.
C14_NoSerialDegraded ==
    (InSession /\ ser = "none") =>
        /\ nFalling = 0
        /\ pc["w"] \notin {"dispatch", "inc_write", "r_send", "r_recv"}
        /\ route \notin {"serial_exc", "fall_cancel"}
        /\ pc["w"] = "loop" => pingOk /\ readyEmitted /\ flSent
        /\ (pc["w"] = "loop" /\ nManual = 0) => current_idx = 0
        /\ (pc["w"] = "loop" /\ running) => ~ENABLED (W_Loop /\ pc'["w"] # "loop")
        /\ (pc["g"] = "idle" /\ nManual < MaxManual) => ENABLED G_NextRead

\* C14 witness: no serial handle, the worker is in its event loop, and a
\* manual advance has moved the index to 1 and reloaded.
C14_Witness ==
    /\ InSession /\ ser = "none" /\ pc["w"] = "loop" /\ running
    /\ pc["g"] = "idle" /\ nManual = 1 /\ current_idx = 1
    /\ lastCmd.kind = "STATUS"

\* C15: once the handshake has failed and nothing is left in flight, the
\* control surface has left the state of an active session: Start is enabled
\* again and Stop is not.
C15_HandshakeFailureSurfaced ==
    (/\ pc["w"] = "crashed" /\ route = "handshake" /\ pc["g"] = "idle"
     /\ pending = <<>> /\ rcvbuf = <<>>)
    => (start_btn /\ ~stop_btn)

\* C16: once running is cleared the worker sends no further PING and no
\* FORCELOAD.
C16_FlagCheckedEverywhere ==
    [][(worker = "set" /\ ~running)
       => /\ ~(pc["w"] = "ping_send" /\ pc'["w"] = "ping_recv")
          /\ ~(pc["w"] = "fl_send" /\ pc'["w"] = "fl_recv")]_vars

\* The elements draw_copies has to add for one text, as the layout rule
\* gives them: copies instances at the rule's offsets from (bx, by), the
\* second of two turned by 180 degrees about its own insert point.
C18_Layout(d, txt, bx, by, off, copies) ==
    LET offsets == CASE copies = 1 -> << <<0, 0>> >>
                     [] copies = 2 -> << <<0, 0>>, <<0, off>> >>
                     [] copies = 4 -> << <<0, 0>>, <<off, 0>>, <<0, off>>,
                                         <<off, off>> >>
    IN /\ Len(d) = copies
       /\ \A i \in 1..Len(d) :
             /\ d[i].txt = txt
             /\ <<d[i].x - bx, d[i].y - by>> = offsets[i]
             /\ d[i].transform # <<>> <=> (copies = 2 /\ i = 2)
             /\ d[i].transform # <<>> =>
                   d[i].transform = <<180, d[i].x, d[i].y>>

\* C17: generate_svg_layers returns (1 if t1 is non-empty) + (1 if t2 or t3
\* is non-empty) paths, the artifact of the first text first and the shared
\* artifact of the second and third after it; the first drawing holds the
\* first text only and the second drawing the other two.
C17_CatalogShape ==
    gout.done =>
        LET n1  == IF gin.t1 # "" THEN 1 ELSE 0
            n23 == IF gin.t2 # "" \/ gin.t3 # "" THEN 1 ELSE 0
        IN /\ Len(gout.created) = n1 + n23
           /\ n1 = 1 => gout.created[1] = "c00"
           /\ n23 = 1 => gout.created[n1 + 1] = "c01"
           /\ {gout.dwg1[i].txt : i \in 1..Len(gout.dwg1)} = {gin.t1} \ {""}
           /\ {gout.dwg2[i].txt : i \in 1..Len(gout.dwg2)}
                 = {gin.t2, gin.t3} \ {""}

\* C17 witness: only the third text is given and the call has returned the
\* shared artifact alone.
C17_Witness ==
    /\ gout.done /\ gin.t1 = "" /\ gin.t2 = "" /\ gin.t3 = "C"
    /\ gout.created = <<"c01">> /\ gout.dwg1 = <<>>

\* C18: for copies in {1, 2, 4} every text of an artifact is drawn as copies
\* instances at the offsets (0,0); (0,0),(0,off); (0,0),(off,0),(0,off),
\* (off,off) from its base position, and only the second instance of two
\* is rotated, by 180 degrees about its own insert point.  The base of the
\* third text is its preset's x and the y that line 282 gives it.
C18_CopiesGeometry ==
    gout.done =>
        LET n  == gin.copies
            k2 == IF gin.t2 # "" THEN n ELSE 0
            y3 == IF gin.t2 # "" THEN gin.p2.y + 4 ELSE gin.p3.y
        IN /\ gin.t1 # "" =>
                 C18_Layout(gout.dwg1, gin.t1, gin.p1.x, gin.p1.y,
                            gin.p1.offset, n)
           /\ gin.t2 # "" =>
                 C18_Layout(SubSeq(gout.dwg2, 1, n), gin.t2, gin.p2.x,
                            gin.p2.y, gin.p2.offset, n)
           /\ gin.t3 # "" =>
                 C18_Layout(SubSeq(gout.dwg2, k2 + 1, Len(gout.dwg2)), gin.t3,
                            gin.p3.x, y3, gin.p3.offset, n)

\* C18 witness: two copies of the second and third text; the fourth element
\* of the shared drawing is the rotated second instance of the third text.
C18_Witness ==
    /\ gout.done /\ gin.copies = 2 /\ gin.t2 = "B" /\ gin.t3 = "C"
    /\ gin.p2.y = 60 /\ gin.p3.offset = 13
    /\ Len(gout.dwg2) = 4
    /\ gout.dwg2[4] = [txt |-> "C", x |-> 50, y |-> 77,
                       transform |-> <<180, 50, 77>>]

\* C19 as stated: after every load the worker confirms, the initial one and
\* every Falling one, it goes on to send START.
C19_StartAfterEveryConfirm ==
    [][(pc["w"] = "fl_chk" /\ pc'["w"] \in {"s0_send", "loop"})
       => pc'["w"] = "s0_send"]_vars

\* C19 amended: after the initial load is confirmed the worker sends START
\* and then emits ready once; after a Falling load is confirmed it emits
\* ready once and sends nothing (START follows the next Rising line).
C19_StartOnlyAfterInitialLoad ==
    [][/\ (pc["w"] = "fl_chk" /\ pc'["w"] = "s0_send") =>
             /\ wctx = "init" /\ nFalling = 0
             /\ UNCHANGED <<nReady, lastCmd, netVars>>
       /\ (pc["w"] = "s0_send" /\ pc'["w"] # "s0_send") =>
             /\ pc'["w"] = "s0_recv"
             /\ lastCmd' = [kind |-> "START", arg |-> "-"]
             /\ nReady' = nReady
       /\ (pc["w"] = "s0_recv" /\ pc'["w"] # "s0_recv") =>
             /\ pc'["w"] = "loop"
             /\ nReady' = nReady + 1
             /\ lastCmd' = lastCmd
       /\ (pc["w"] = "fl_chk" /\ pc'["w"] = "loop") =>
             /\ wctx = "fall"
             /\ nReady' = nReady + 1
             /\ UNCHANGED <<lastCmd, pending>>
       /\ (pc["w"] = "fl_chk" /\ wctx = "fall" /\ pc'["w"] # "fl_chk") =>
             pc'["w"] \in {"loop", "cleanup"}]_vars

\* C19 witness: a Falling load was confirmed and ready emitted a second
\* time while the last command sent is still the STATUS of the poll.
C19_Witness ==
    /\ pc["w"] = "loop" /\ running /\ nFalling = 1 /\ nManual = 0
    /\ nReady = 2 /\ lastCmd.kind = "STATUS"

\* C20: the first FORCELOAD of a session is sent after a PING of the session
\* was answered with OK, and names the first artifact of the catalog.
C20_FirstLoadIsLayerZero ==
    [][(InSession /\ ~flSent /\ flSent')
       => (pingOk /\ lastCmd' = [kind |-> "FORCELOAD", arg |-> wlayers[1]])]_vars

\* A thread has sent a FORCELOAD whose poll has not ended.
LoadPending(t) == pc[t] \in {"fl_recv", "st_send", "st_recv"}

\* C21: the worker emits ready, and goes on to the initial START, only from
\* the return of a _force_load_index whose poll ended on a STATUS that
\* returned OK with running still set; a poll that ended in any other way
\* ends the worker's run with no ready and no command; the poll ends
\* without OK only when running was cleared.
C21_ReadyOnlyAfterConfirm ==
    [][/\ nReady' # nReady =>
             \/ /\ pc["w"] = "fl_chk" /\ wctx = "fall"
                /\ st["w"] = "OK" /\ running /\ flSent
             \/ pc["w"] = "s0_recv"
             \/ pc["g"] = "start_body"
       /\ pc'["w"] = "s0_send" =>
             \/ pc["w"] = "s0_send"
             \/ /\ pc["w"] = "fl_chk" /\ wctx = "init"
                /\ st["w"] = "OK" /\ running /\ flSent
       /\ (pc["w"] = "fl_chk" /\ pc'["w"] # "fl_chk"
              /\ (st["w"] # "OK" \/ ~running)) =>
             /\ pc'["w"] \in {"done", "cleanup"}
             /\ UNCHANGED <<nReady, readyEmitted, lastCmd, netVars>>
       /\ (pc'["w"] = "fl_chk" /\ st'["w"] # "OK") => ~running']_vars

\* C21 witness: stop came while the worker polled for a Falling load; the
\* poll has ended without OK and the worker is about to leave the loop.
C21_Witness ==
    /\ pc["w"] = "fl_chk" /\ wctx = "fall" /\ st["w"] = "BUSY" /\ ~running
    /\ nReady = 1

\* C22: the reply that ends a confirm poll with OK, running still set, is
\* the reply to a request of the same thread whose send_cmd has not returned,
\* that is, to the STATUS just sent.
C22_ConfirmedByOwnStatus ==
    [][\A t \in Threads :
          (/\ pc[t] = "st_recv" /\ pc'[t] = "fl_chk"
           /\ running /\ reply = "OK")
          => Head(rcvbuf).by = t]_vars

\* C23: no START is sent while a FORCELOAD of either thread awaits the end
\* of its poll.
C23_NoStartWhileLoading ==
    [][(\/ pc["w"] = "r_send" /\ pc'["w"] = "r_recv"
        \/ pc["w"] = "s0_send" /\ pc'["w"] = "s0_recv")
       => ~(LoadPending("g") \/ LoadPending("w"))]_vars

\* C24: in a running session in which neither thread is inside an
\* increment / FORCELOAD / poll sequence, the artifact of the most recent
\* FORCELOAD is the one at current_idx.
C24_LoadedIsCurrent ==
    (InSession /\ running /\ lastLoad # "-" /\ ~InLoad("w") /\ ~InLoad("g"))
    => lastLoad = wlayers[current_idx + 1]

\* C25: in a session, whenever neither thread is between the read and the
\* store of an increment, current_idx = (Falling lines handled + manual
\* advances) mod N.
C25_NoLostIncrement ==
    (InSession /\ pc["w"] # "inc_write" /\ pc["g"] # "inc_write")
    => current_idx = (nFalling + nManual) % Len(wlayers)

\* C26: once on_stop has cleared running and waits, the worker finishes and
\* on_stop returns, wherever the worker was.
C26_StopTerminates ==
    (pc["g"] = "stop_wait") ~> (pc["g"] = "idle" /\ pc["w"] \in Finished \cup {"none"})

\* C26 witness: on_stop is waiting while the worker is still inside the
\* handshake.
C26_Witness ==
    /\ pc["g"] = "stop_wait" /\ ~running /\ pc["w"] = "ping_recv"

\* C27: a PING that returns OK ends the handshake at once; any other
\* return (no reply included) starts another PING and counts one more
\* failed iteration, up to the deadline, where the handshake failure is
\* raised; the count stays below the deadline's, so the loop ends.
C27_HandshakeLoop ==
    [][/\ (pc["w"] = "ping_send" /\ pc'["w"] # "ping_send") =>
             /\ pc'["w"] = "ping_recv"
             /\ lastCmd' = [kind |-> "PING", arg |-> "-"]
             /\ pings' = pings
       /\ (pc["w"] = "ping_recv" /\ pc'["w"] # "ping_recv") =>
             IF reply = "OK"
                THEN pc'["w"] = "fl_arg" /\ pingOk' /\ pings' = pings
                ELSE IF pings + 1 < MaxPings
                THEN pc'["w"] = "ping_send" /\ pings' = pings + 1
                        /\ pingOk' = pingOk
                ELSE pc'["w"] = "crashed" /\ route' = "handshake"
                        /\ pingOk' = pingOk
       /\ pings' < MaxPings]_vars

\* C27 witness: the first PING did not return OK, the second did, and the
\* handshake has returned.
C27_Witness ==
    /\ pc["w"] = "fl_arg" /\ wctx = "init" /\ pings = 1 /\ pingOk /\ ~flSent

\* C28: the step of on_start that closes and rebinds the receive socket
\* leaves its buffer empty and is taken with no worker alive; a worker sends
\* its first request only after that step, from the rest of on_start.
C28_RebindBeforeFirstRequest ==
    [][/\ (pc["g"] = "idle" /\ pc'["g"] = "start_body") =>
             rcvbuf' = <<>> /\ ~Alive /\ ~Alive'
       /\ (pc'["w"] = "ping_send" /\ pc["w"] \notin {"ping_send", "ping_recv"}) =>
             pc["g"] = "start_body" /\ lastCmd' = NoCmd]_vars

\* C28 witness: a session was stopped, a reply to it is still buffered in
\* sock_rcv, and Start can be pressed.
C28_Witness ==
    /\ pc["g"] = "idle" /\ start_btn /\ worker = "set" /\ pc["w"] = "done"
    /\ rcvbuf # <<>> /\ ENABLED G_StartRebind

\* C29: while a worker is alive Start is disabled and on_start is not
\* running, so the receive socket is not rebound under a live worker.
C29_OneWorker ==
    Alive => (~start_btn /\ pc["g"] # "start_body" /\ ~ENABLED G_StartRebind)

\* C29 witness: on_stop has cleared running and waits for a worker that is
\* still polling.
C29_Witness ==
    /\ Alive /\ pc["g"] = "stop_wait" /\ pc["w"] = "st_recv" /\ ~start_btn

\* C30: after on_stop has returned and before on_start runs again, the
\* index of the stopped session does not change and no command is sent.
C30_QuietAfterStop ==
    [][(worker = "set" /\ start_btn /\ pc["w"] \in Finished
          /\ pc["g"] # "start_body")
       => UNCHANGED <<current_idx, lastCmd>>]_vars

\* C31: the worker's handling of a line that holds both markers is the
\* Falling branch: it counts one Falling line, goes on to the increment and
\* sends nothing itself; the Rising branch, the only one that sends START
\* from the event loop, is entered only for a line without the Falling
\* marker, and the line is gone once it has been dispatched.
C31_FallingFirst ==
    [][/\ (pc["w"] = "dispatch" /\ pc'["w"] # "dispatch"
              /\ {"F", "R"} \subseteq raw) =>
             /\ pc'["w"] = "inc_write"
             /\ nFalling' = nFalling + 1
             /\ tmp'["w"] = current_idx
             /\ raw' = {}
             /\ UNCHANGED <<current_idx, lastCmd, netVars, nReady>>
       /\ (pc'["w"] = "r_send" /\ pc["w"] # "r_send") =>
             /\ pc["w"] = "dispatch"
             /\ "R" \in raw /\ "F" \notin raw
       /\ (pc["w"] = "inc_write" /\ pc'["w"] # "inc_write") =>
             /\ pc'["w"] = "fl_arg"
             /\ current_idx' = (tmp["w"] + 1) % Len(wlayers)]_vars

\* C31 witness: mid-session, at index 1 of two layers, the worker has read
\* a line that holds both markers and is about to handle it.
C31_Witness ==
    /\ pc["w"] = "dispatch" /\ raw = {"F", "R"}
    /\ running /\ readyEmitted /\ Len(wlayers) = 2 /\ current_idx = 1

\* C32: the worker's handling of a line that holds undecodable bytes goes
\* back to the top of the event loop, whatever else the line holds, with the
\* index, the channel and the serial handle as they were.
C32_UndecodableDropped ==
    [][(pc["w"] = "dispatch" /\ pc'["w"] # "dispatch" /\ "B" \in raw)
       => /\ pc'["w"] = "loop"
          /\ UNCHANGED <<current_idx, lastCmd, netVars, nFalling, ser>>]_vars

====
